---- MODULE Spec2Model ----
(***************************************************************************)
(* State-machine model of the SolarSystem scene component of Solar3D.      *)
(*                                                                         *)
(* Two revisions of the component are in the repository: part_000 (camera  *)
(* modes, time-based kinematics, moons, asteroids) and part_001 (pivot     *)
(* based kinematics, no camera modes).  The variable `version` selects the *)
(* revision; it is chosen at Init and never changes.                       *)
(*                                                                         *)
(* Units.  orbitSpeed is held in tenths (1 = 0.1, 50 = 5.0).  Time is held *)
(* in ticks of 16 ms, so that the 0.016 s added by rotatePlanets is one    *)
(* tick.  Orbit angles are the integer products the code computes, in the  *)
(* unit 0.016 * 0.01 * 0.1 rad (part_000) or 0.01 * 0.1 rad (part_001).    *)
(*                                                                         *)
(* React state setters called inside an event handler are committed before *)
(* the host delivers the next task (frame callback or input event), so a   *)
(* handler and the commit of its state updates are one atomic action.      *)
(***************************************************************************)
EXTENDS Integers, Sequences, FiniteSets, TLC

VARIABLES
    version,            \* which revision of the component is running
    mounted,            \* the component is mounted (effects ran, not cleaned up)
    route,              \* current router location
    orbitSpeed,         \* useState(1), in tenths
    showLabels,         \* useState(true)
    selectedPlanet,     \* useState<string | null>(null)
    selectedPlanetInfo, \* useState(null): name of the body whose info is shown
    cameraMode,         \* useState('orbit')
    targetPlanet,       \* useState<string | null>(null)
    closure,            \* state values captured by the []-deps effect closures
    timeRef,            \* timeRef.current, ticks
    lastTime,           \* `let lastTime` of the animate closure, ticks
    orbitAngle,         \* per orbiting node: the orbit angle last written
    controls,           \* OrbitControls instance (flags, target, damped motion)
    cameraPosition,     \* camera.position: "default" or "moved"
    rafNext,            \* host: id the next requestAnimationFrame returns
    rafPending,         \* host: ids of animation-frame requests not yet fired
    animationFrameRef,  \* animationFrameRef.current (0 models null)
    windowSize,         \* host: <<window.innerWidth, window.innerHeight>>
    cameraAspect,       \* camera.aspect, as the pair <<width, height>> divided
    rendererSize,       \* size last given to renderer.setSize
    navigations,        \* number of navigate() calls made so far
    spinAngle,          \* per spinning node: rotation.y last written
    sceneRef,           \* sceneRef.current: number of the scene it holds
    planetsRef,         \* planetsRef.current: key -> scene the node is in
    labelsRef,          \* labelsRef.current: id -> label sprite
    sceneSprites,       \* per id: label sprites that are children of the scene
    listeners,          \* event listeners attached and not removed
    meshAngle,          \* per planet and moon mesh: angle of its position.x/z
    asteroids,          \* asteroidsRef.current: count, positions, velocities
    store,              \* Firestore: planet ids p with a document favorites/<uid>_<p>
    profile,            \* the Profile page: its state and its calls in flight
    detail,             \* the PlanetDetail page: its state and its calls in flight
    lastEvent           \* history: the last operation and its input

vars == <<version, mounted, route, orbitSpeed, showLabels, selectedPlanet,
          selectedPlanetInfo, cameraMode, targetPlanet, closure, timeRef,
          lastTime, orbitAngle, controls, cameraPosition, rafNext, rafPending,
          animationFrameRef, windowSize, cameraAspect, rendererSize,
          navigations, spinAngle, sceneRef, planetsRef, labelsRef,
          sceneSprites, listeners, meshAngle, asteroids, store, profile,
          detail, lastEvent>>

reactVars  == <<orbitSpeed, showLabels, selectedPlanet, selectedPlanetInfo,
                cameraMode, targetPlanet>>
frameVars  == <<timeRef, lastTime, orbitAngle, rafNext, rafPending,
                animationFrameRef>>
cameraVars == <<controls, cameraPosition>>
sizeVars   == <<windowSize, cameraAspect, rendererSize>>
labelVars  == <<labelsRef, sceneSprites>>
sceneVars  == <<spinAngle, sceneRef, planetsRef, labelsRef, sceneSprites,
                listeners, meshAngle, asteroids>>
pageVars   == <<store, profile, detail>>

NULL == "null"

Versions == {"part_000", "part_001"}

-----------------------------------------------------------------------------
(* Bounds of the model. *)

MaxFrames   == 3    \* animation-frame requests issued in one run
MaxHostTime == 2    \* largest frame timestamp the host supplies, ticks
MaxHits     == 2    \* longest intersection list a click is given
MaxNav      == 2    \* navigate() calls counted in one run
MaxDim      == 2    \* largest window width and height
MaxCells    == 1    \* coordinates of the asteroid arrays the model keeps

-----------------------------------------------------------------------------
(* Body registry (utils/planetData).  Speeds and sizes are small integers. *)

planetData ==
    << [id |-> "earth",  orbitSpeed |-> 3, rotationSpeed |-> 2, size |-> 5,
        moons |-> << [id |-> "moon", orbitSpeed |-> 5, rotationSpeed |-> 1] >>],
       [id |-> "saturn", orbitSpeed |-> 1, rotationSpeed |-> 4, size |-> 10,
        moons |-> << >>] >>

getSunData == [rotationSpeed |-> 1]

PlanetIds == { planetData[i].id : i \in DOMAIN planetData }

getPlanetById(id) ==
    LET S == { i \in DOMAIN planetData : planetData[i].id = id }
    IN  IF S = {} THEN NULL ELSE planetData[CHOOSE i \in S : TRUE]

\* `${planet.id}_${moon.id}`
MoonKey(p, m) == p \o "_" \o m

MoonKeys ==
    UNION { { MoonKey(planetData[i].id, planetData[i].moons[j].id) :
                j \in DOMAIN planetData[i].moons } : i \in DOMAIN planetData }

-----------------------------------------------------------------------------
(* Scene objects a pointer ray can intersect.  handleClick looks only at   *)
(* the object's class (instanceof THREE.Mesh) and its name.                *)

Obj(kind, type, name) == [kind |-> kind, type |-> type, name |-> name]

PlanetObjects == { Obj("planet", "Mesh", p) : p \in PlanetIds }

MoonObjects == { Obj("moon", "Mesh", k) : k \in MoonKeys }

SceneObjects(v) ==
    IF v = "part_000"
    THEN { Obj("sun", "Mesh", "sun"), Obj("sunGlow", "Mesh", ""),
           Obj("orbitLine", "Mesh", ""), Obj("saturnRing", "Mesh", ""),
           Obj("stars", "Points", ""), Obj("asteroids", "Points", ""),
           Obj("label", "Sprite", "") }
         \cup PlanetObjects \cup MoonObjects
    ELSE { Obj("sun", "Mesh", "sun"), Obj("sunGlow", "Mesh", ""),
           Obj("orbitLine", "Line", ""), Obj("saturnRing", "Mesh", ""),
           Obj("stars", "Points", ""), Obj("largeStar", "Mesh", ""),
           Obj("label", "Sprite", "") }
         \cup PlanetObjects

\* lists of at most MaxHits distinct objects of S
ListsOver(S) ==
    { h \in UNION { [1..n -> S] : n \in 0..MaxHits } :
        \A i, j \in DOMAIN h : i # j => h[i] # h[j] }

HitLists000 == ListsOver(SceneObjects("part_000"))

HitLists001 == ListsOver(SceneObjects("part_001"))

\* Raycaster.intersectObjects: the hits, nearest first, each object once.
HitLists(v) == IF v = "part_000" THEN HitLists000 ELSE HitLists001

\* the test with the name check left out: any Mesh passes
IsMesh(o) == o.type = "Mesh"

\* the test with any non-empty name accepted
IsNamedMesh(o) == o.type = "Mesh" /\ o.name # ""

\* planetId === 'sun' || planetData.some(p => p.id === planetId), on a Mesh
IsPlanetOrSun(o) ==
    /\ o.type = "Mesh"
    /\ (o.name = "sun" \/ o.name \in PlanetIds)

\* the loop run from the far end of the list
FirstPickFarthest(hits) ==
    LET S == { i \in DOMAIN hits : IsPlanetOrSun(hits[i]) }
    IN  IF S = {} THEN 0 ELSE CHOOSE i \in S : \A j \in S : i >= j

\* The for-loop of handleClick: index of the first hit that passes the test,
\* 0 when the loop ends without a break.
FirstPick(hits) ==
    LET S == { i \in DOMAIN hits : IsPlanetOrSun(hits[i]) }
    IN  IF S = {} THEN 0 ELSE CHOOSE i \in S : \A j \in S : i <= j

-----------------------------------------------------------------------------
(* Kinematics: rotatePlanets. *)

OrbitKeys(v) == IF v = "part_000" THEN PlanetIds \cup MoonKeys ELSE PlanetIds

\* planet.orbitSpeed / moon.orbitSpeed of the node stored under key k
OrbitRate(k) ==
    IF k \in PlanetIds
    THEN getPlanetById(k).orbitSpeed
    ELSE LET i == CHOOSE i \in DOMAIN planetData :
                    \E j \in DOMAIN planetData[i].moons :
                        MoonKey(planetData[i].id, planetData[i].moons[j].id) = k
             j == CHOOSE j \in DOMAIN planetData[i].moons :
                        MoonKey(planetData[i].id, planetData[i].moons[j].id) = k
         IN  planetData[i].moons[j].orbitSpeed

\* The orbitSpeed the running rotatePlanets reads.  animate is created once by
\* the []-deps effect and calls the rotatePlanets of that first render, whose
\* `orbitSpeed` is the value captured then.
FrameOrbitSpeed(cl) == cl.orbitSpeed

\* the nodes whose rotation.y rotatePlanets writes
SpinKeys(v) == {"sun"} \cup OrbitKeys(v)

\* the moon record of the node stored under the moon key k
MoonRecord(k) ==
    LET i == CHOOSE i \in DOMAIN planetData :
                \E j \in DOMAIN planetData[i].moons :
                    MoonKey(planetData[i].id, planetData[i].moons[j].id) = k
        j == CHOOSE j \in DOMAIN planetData[i].moons :
                    MoonKey(planetData[i].id, planetData[i].moons[j].id) = k
    IN  planetData[i].moons[j]

\* getSunData().rotationSpeed, planet.rotationSpeed, moon.rotationSpeed
SpinRate(k) ==
    IF k = "sun" THEN getSunData.rotationSpeed
    ELSE IF k \in PlanetIds THEN getPlanetById(k).rotationSpeed
    ELSE MoonRecord(k).rotationSpeed

\* the rotation with the orbit-speed multiplier as a factor
RotationScaled(v, k, t, prev, s) ==
    IF v = "part_000" THEN t * SpinRate(k) * s ELSE prev + SpinRate(k) * s

\* rotation.y of node k: timeRef * rotationSpeed * 0.01 in part_000,
\* rotation.y += rotationSpeed * 0.01 in part_001.  orbitSpeed (s) is in
\* scope and is not read.
Rotation(v, k, t, prev, s) ==
    IF v = "part_000" THEN t * SpinRate(k) ELSE prev + SpinRate(k)

\* part_000: timeRef.current += 0.016, then angle = timeRef * speed * 0.01 * s.
\* part_001: pivot.rotation.y += speed * 0.01 * s.
\* part_000 then sets the mesh's position.x/z to the radius at that angle;
\* part_001 leaves the mesh where createPlanets put it.
rotatePlanets(v, t, ang, spin, mesh, s) ==
    LET t1 == IF v = "part_000" THEN t + 1 ELSE t
        a1 == [k \in OrbitKeys(v) |->
                IF v = "part_000" THEN t1 * OrbitRate(k) * s
                ELSE ang[k] + OrbitRate(k) * s]
    IN  [timeRef |-> t1,
         orbitAngle |-> a1,
         spinAngle |->
            [k \in SpinKeys(v) |-> Rotation(v, k, t1, spin[k], s)],
         meshAngle |-> IF v = "part_000" THEN a1 ELSE mesh]

\* planetMesh.position.y = Math.sin(timeRef.current * 0.5) * 0.1: zero at
\* time 0 and at no later time the clock reaches; the value is held as a
\* sign that alternates.
Wobble(t) == IF t = 0 THEN 0 ELSE IF t % 2 = 1 THEN 1 ELSE -1

\* y of the world position of the node under key id: the planets of
\* part_000 wobble, the sun and the pivoted planets of part_001 stay at 0
WorldY(v, id, t) ==
    IF v = "part_000" /\ id \in PlanetIds THEN Wobble(t) ELSE 0

\* x and z of the world position of the node under key id, as the angle it
\* is seen at from its orbit's centre (the sun stays at the origin): the
\* angle of the mesh's own position and, in part_001, the pivot's rotation.y,
\* which turns a point at angle a to angle a - rotation.y.
WorldXZ(v, id, ang, mesh) ==
    IF id \notin DOMAIN mesh THEN 0
    ELSE IF v = "part_000" THEN mesh[id]
    ELSE mesh[id] - ang[id]

\* the planet whose mesh the moon stored under key k was added to
ParentOf(k) ==
    CHOOSE p \in PlanetIds :
        \E i \in DOMAIN getPlanetById(p).moons :
            MoonKey(p, getPlanetById(p).moons[i].id) = k

\* moonMesh.getWorldPosition(): the parent's world position, and the moon's
\* offset from it.  The moon is a child of the planet mesh, so the offset is
\* the moon's position turned by the planet's rotation.y; one unit of spin
\* angle is ten units of orbit angle.
MoonWorldPosition(k, mesh, spin, t) ==
    [parent |-> [xz |-> mesh[ParentOf(k)],
                 y |-> WorldY("part_000", ParentOf(k), t)],
     offset |-> mesh[k] - 10 * spin[ParentOf(k)]]

-----------------------------------------------------------------------------
(* Labels. *)

\* the bodies addPlanetLabels makes a label for
LabelIds == {"sun"} \cup PlanetIds

SunSize == 5

LabelOffset == 2

\* planetSize: 5 for the sun, planet.size * 0.4 for a planet
PlanetSize(id) ==
    IF id = "sun" THEN SunSize ELSE (getPlanetById(id).size * 4) \div 10

\* createLabel: nothing when planetsRef has no node for the id; otherwise a
\* sprite at the body's world position with y set to planetSize + 2, added
\* to the scene and stored in labelsRef.
createLabel(v, id, prefs, ang, mesh, scene) ==
    [scene |-> scene, xz |-> WorldXZ(v, id, ang, mesh),
     y |-> PlanetSize(id) + LabelOffset, facing |-> "none"]

\* addPlanetLabels: the labels it stores, given the planetsRef it reads
addPlanetLabels(v, prefs, ang, mesh, scene) ==
    [id \in LabelIds \cap DOMAIN prefs |->
        createLabel(v, id, prefs, ang, mesh, scene)]

\* updateLabels: every label whose body resolves is moved to the body's
\* world position, its y is set to planetSize + 2, and it is turned to the
\* camera.
updateLabels(v, labels, prefs, ang, mesh, pos) ==
    [id \in DOMAIN labels |->
        IF id \in DOMAIN prefs
        THEN [labels[id] EXCEPT !.xz = WorldXZ(v, id, ang, mesh),
                                !.y = PlanetSize(id) + LabelOffset,
                                !.facing = pos]
        ELSE labels[id]]

\* The [showLabels] effect of part_001, run when a render commits a changed
\* showLabels: every label of labelsRef is removed from the scene, labelsRef
\* is emptied, and the labels are made anew when showLabels is true.
\* part_000 has no such effect.
LabelsEffect(v, show, labels, sprites, prefs, ang, mesh, scene) ==
    IF v = "part_000"
    THEN [labelsRef |-> labels, sceneSprites |-> sprites]
    ELSE LET removed == [id \in LabelIds |->
                            IF id \in DOMAIN labels /\ sprites[id] > 0
                            THEN sprites[id] - 1 ELSE sprites[id]]
             made    == addPlanetLabels(v, prefs, ang, mesh, scene)
         IN  IF show
             THEN [labelsRef |-> made,
                   sceneSprites |-> [id \in LabelIds |->
                        IF id \in DOMAIN made THEN removed[id] + 1
                        ELSE removed[id]]]
             ELSE [labelsRef |-> [id \in {} |-> NULL],
                   sceneSprites |-> removed]

-----------------------------------------------------------------------------
(* Asteroids (part_000).  Positions and velocities are held in units of     *)
(* 0.0005, so that a velocity component lies in -100..99 and a coordinate   *)
(* that is a multiple of ten has an integer -0.9-fold.  The arrays hold     *)
(* three coordinates per asteroid and updateAsteroids treats each           *)
(* coordinate alone; the model keeps the first MaxCells of them.            *)

AsteroidCount == 1000        \* const asteroidCount = 1000

MaxDistance == 1000000       \* const maxDistance = 500

Abs(x) == IF x < 0 THEN -x ELSE x

\* createPlanets: Math.random() * Math.PI * 2, the angle a mesh is placed at
PlacementAngles == {0, 7}

Placements(v) == [OrbitKeys(v) -> PlacementAngles]

\* addAsteroids: coordinates of points at a radius below 500, near the bound
\* on either side and at the centre
StartPositions == {-999900, 0, 999900}

\* addAsteroids: (Math.random() - 0.5) * 0.1
StartVelocities == {-100, 0, 90}

\* asteroidsRef.current of a component that has no asteroids (part_001)
NoAsteroids == [count |-> 0, positions |-> << >>, velocities |-> << >>]

\* addAsteroids: the fields it can return
Fields(v) ==
    IF v = "part_000"
    THEN { [count |-> AsteroidCount, positions |-> ps, velocities |-> vs] :
            ps \in [1..MaxCells -> StartPositions],
            vs \in [1..MaxCells -> StartVelocities] }
    ELSE { NoAsteroids }

\* a reflection that keeps the magnitude
ReflectWhole(p) == -p

\* asteroidPositions[i] *= -0.9
Reflect(p) == (p * (-9)) \div 10

\* the coordinates the velocity step of updateAsteroids takes beyond
\* maxDistance
Reflected(a) ==
    { c \in DOMAIN a.positions :
        Abs(a.positions[c] + a.velocities[c]) > MaxDistance }

\* updateAsteroids: every coordinate moves by its velocity and, when its
\* absolute value then exceeds maxDistance, is multiplied by -0.9.
updateAsteroids(a) ==
    [a EXCEPT !.positions =
        [c \in DOMAIN a.positions |->
            IF c \in Reflected(a)
            THEN Reflect(a.positions[c] + a.velocities[c])
            ELSE a.positions[c] + a.velocities[c]]]

-----------------------------------------------------------------------------
(* Camera and OrbitControls.                                                *)
(*                                                                         *)
(* camera.position is "default" when it is exactly the position the scene  *)
(* initialisation sets ((0,50,150) in part_000, (0,30,80) in part_001) and  *)
(* "moved" otherwise.  The controls keep a damped residue of rotation or    *)
(* zoom (sphericalDelta, scale) and of panning (panOffset): rotatePending  *)
(* and panPending say that the residue is non-zero.                        *)

Origin == [at |-> "origin", id |-> NULL, angles |-> << >>]

Panned == [at |-> "panned", id |-> NULL, angles |-> << >>]

\* planet.getWorldPosition(): the node's place, given by its key and the
\* orbit angles of the node and of its parent.
WorldPosition(k, ang) ==
    [at |-> "body", id |-> k,
     angles |-> IF k \in PlanetIds THEN << ang[k] >>
                ELSE IF k \in MoonKeys
                THEN LET p == CHOOSE p \in PlanetIds :
                                \E i \in DOMAIN getPlanetById(p).moons :
                                    MoonKey(p, getPlanetById(p).moons[i].id) = k
                     IN  << ang[p], ang[k] >>
                ELSE << >>]

\* keys of planetsRef.current that resolve to a node
PlanetsRefKeys(v) ==
    IF v = "part_000" THEN {"sun"} \cup PlanetIds \cup MoonKeys
    ELSE {"sun"} \cup PlanetIds \cup { p \o "-pivot" : p \in PlanetIds }

\* The 'change' listener of part_000, with the cameraMode and targetPlanet
\* its closure captured.
ChangeListener(v, cl, c, ang) ==
    IF /\ v = "part_000"
       /\ cl.cameraMode = "planet"
       /\ cl.targetPlanet # NULL
       /\ cl.targetPlanet \in PlanetsRefKeys(v)
    THEN [c EXCEPT !.target = WorldPosition(cl.targetPlanet, ang)]
    ELSE c

\* OrbitControls.update() with enableDamping: auto-rotation and the damped
\* residue move the camera around the target, the pan residue moves the
\* target; a residue decays and may or may not have died out afterwards.
\* The set of possible outcomes.
ControlsUpdate(v, cl, c, pos, ang) ==
    LET rot == c.autoRotate \/ c.rotatePending
        RP  == IF c.autoRotate THEN {TRUE}
               ELSE IF c.rotatePending THEN {TRUE, FALSE} ELSE {FALSE}
        PP  == IF c.panPending THEN {TRUE, FALSE} ELSE {FALSE}
        c1  == [c EXCEPT !.target = IF c.panPending THEN Panned ELSE @]
        c2  == IF rot \/ c.panPending THEN ChangeListener(v, cl, c1, ang) ELSE c1
    IN  { [controls |-> [c2 EXCEPT !.rotatePending = rp, !.panPending = pp],
           position |-> IF rot THEN "moved" ELSE pos] : rp \in RP, pp \in PP }

-----------------------------------------------------------------------------
(* Program constants. *)

InitialOrbitSpeed == 10     \* useState(1)
OrbitSpeedMin     == 1      \* 0.1
OrbitSpeedMax     == 50     \* 5

\* '+' and '-' step: 0.1 in part_000, 0.5 in part_001
KeyStep(v) == IF v = "part_000" THEN 1 ELSE 5

Min(a, b) == IF a <= b THEN a ELSE b

Max(a, b) == IF a >= b THEN a ELSE b

\* values the range input (min 0.1, max 5, step 0.1) hands to onChange
SliderValues == OrbitSpeedMin..OrbitSpeedMax

Keys == {"l", "L", "+", "=", "-", "_", "r", "R", "Home", "Escape"}

\* the switch of handleKeyDown: the case a key falls in
KeyCase(key) ==
    CASE key \in {"l", "L"} -> "labels"
      [] key \in {"+", "="} -> "faster"
      [] key \in {"-", "_"} -> "slower"
      [] key \in {"r", "R"} -> "autoRotate"
      [] key = "Home"       -> "home"
      [] OTHER              -> "none"

\* lastEvent: the operation that ran last, with the key case, hit list or mode
\* it was given; `before` is orbitSpeed before a key event (0 otherwise).
NoEvent == [op |-> "init", key |-> NULL, hits |-> << >>, mode |-> NULL,
            before |-> 0, stages |-> << >>, reflected |-> 0]

Event(op) == [NoEvent EXCEPT !.op = op]

-----------------------------------------------------------------------------
(* The favourites pages, Profile and PlanetDetail, before they are opened.  *)
(* A favourite of the signed-in user is the Firestore document              *)
(* favorites/<uid>_<planetId>; `store` holds the planet ids that have one.  *)

\* what the store can hold when the application starts
Stores == SUBSET PlanetIds

\* Profile: useState([]) and useState(true); no call in flight.  `fetched`
\* and `deleted` are history: the ids the fetch returned and the ids whose
\* remote delete succeeded.
ProfileClosed ==
    [open |-> FALSE, favorites |-> {}, loading |-> TRUE, fetching |-> FALSE,
     fetched |-> {}, removals |-> {}, deleted |-> {}]

\* PlanetDetail: useState(false) twice; no call in flight.  `failed` is
\* history: a remote call of this page was rejected.
DetailClosed ==
    [open |-> FALSE, user |-> FALSE, id |-> NULL, isFavorite |-> FALSE,
     loading |-> FALSE, check |-> "none", checkResult |-> FALSE,
     toggle |-> "none", toggleOp |-> "none", failed |-> FALSE]

-----------------------------------------------------------------------------
(* Scene initialisation (the []-deps effect) and the frame loop. *)

\* the window size when the page opens
InitialWindow == << 1, 1 >>

\* what the closures of the first render capture
InitialClosure ==
    [orbitSpeed |-> InitialOrbitSpeed, showLabels |-> TRUE,
     cameraMode |-> "orbit", targetPlanet |-> NULL]

\* new OrbitControls(...) and the flags set right after it
InitialControls(v) ==
    [autoRotate |-> (v = "part_000"), enablePan |-> TRUE, enableZoom |-> TRUE,
     enableRotate |-> TRUE, target |-> Origin,
     rotatePending |-> FALSE, panPending |-> FALSE]

\* the stages one run of animate goes through, in the order of its statements
FrameStagesLabelsFirst(v, cl) ==
    << "rotatePlanets" >>
    \o (IF cl.showLabels THEN << "updateLabels" >> ELSE << >>)
    \o (IF v = "part_000" THEN << "updateAsteroids" >> ELSE << >>)
    \o << "controls.update", "render" >>

FrameStages(v, cl) ==
    << "rotatePlanets" >>
    \o (IF v = "part_000" THEN << "updateAsteroids" >> ELSE << >>)
    \o << "controls.update" >>
    \o (IF cl.showLabels THEN << "updateLabels" >> ELSE << >>)
    \o << "render" >>

\* a clock that is set to the delta instead of advanced by it
ClockRestart(t, dt) == dt

\* timeRef.current += deltaTime
ClockStep(t, dt) == t + dt

\* the ref left as it was when the next frame is requested
KeepFrameId(ref, id) == ref

\* animationFrameRef.current = requestAnimationFrame(animate)
StoreFrameId(ref, id) == id

\* One run of animate, after it has requested the next frame: clock, then
\* rotatePlanets, then controls.update(), then updateLabels when the captured
\* showLabels is true, then render.  The set of possible outcomes.
animate(v, cl, currentTime, lt, t, ang, spin, mesh, field, labels, prefs, c, pos) ==
    LET dt == currentTime - lt
        r  == IF v = "part_000"
              THEN rotatePlanets(v, ClockStep(t, dt), ang, spin, mesh,
                                 FrameOrbitSpeed(cl))
              ELSE rotatePlanets(v, t, ang, spin, mesh, FrameOrbitSpeed(cl))
    IN  { [lastTime |-> IF v = "part_000" THEN currentTime ELSE lt,
           timeRef |-> r.timeRef, orbitAngle |-> r.orbitAngle,
           spinAngle |-> r.spinAngle, meshAngle |-> r.meshAngle,
           asteroids |-> IF v = "part_000" THEN updateAsteroids(field)
                         ELSE field,
           reflected |-> IF v = "part_000" THEN Cardinality(Reflected(field))
                         ELSE 0,
           controls |-> u.controls, position |-> u.position,
           labelsRef |-> IF cl.showLabels
                         THEN updateLabels(v, labels, prefs, r.orbitAngle,
                                           r.meshAngle, u.position)
                         ELSE labels,
           stages |-> FrameStages(v, cl)] :
            u \in ControlsUpdate(v, cl, c, pos, r.orbitAngle) }

\* the listeners a scene attaches: resize, click and keydown on window, and
\* OrbitControls' own on renderer.domElement
ListenersOf(scene) ==
    { [on |-> n, scene |-> scene] :
        n \in {"resize", "click", "keydown", "controls"} }

\* The scene-initialisation effect up to and including its animate(0) call,
\* followed in part_001 by the first run of the [showLabels] effect.
\* createPlanets places the meshes at the angles `place` and addAsteroids
\* returns `field`.
SceneInit(v, scene, place, field) ==
    LET ang0  == [k \in OrbitKeys(v) |-> 0]
        spin0 == [k \in SpinKeys(v) |-> 0]
        prefs == [k \in PlanetsRefKeys(v) |-> scene]
        lab0  == addPlanetLabels(v, prefs, ang0, place, scene)
        spr0  == [id \in LabelIds |-> IF id \in DOMAIN lab0 THEN 1 ELSE 0]
        U1    == IF v = "part_000"
                 THEN ControlsUpdate(v, InitialClosure, InitialControls(v),
                                     "default", ang0)
                 ELSE { [controls |-> InitialControls(v), position |-> "default"] }
        A     == UNION { animate(v, InitialClosure, 0, 0, 0, ang0, spin0, place,
                                 field, lab0, prefs, u.controls, u.position) :
                            u \in U1 }
    IN  { LET e == LabelsEffect(v, TRUE, a.labelsRef, spr0, prefs,
                               a.orbitAngle, a.meshAngle, scene)
          IN  [lastTime |-> a.lastTime, timeRef |-> a.timeRef,
               orbitAngle |-> a.orbitAngle, spinAngle |-> a.spinAngle,
               meshAngle |-> a.meshAngle, asteroids |-> a.asteroids,
               controls |-> a.controls, position |-> a.position,
               planetsRef |-> prefs, labelsRef |-> e.labelsRef,
               sceneSprites |-> e.sceneSprites] : a \in A }

\* the draws of Math.random held at one outcome: every mesh placed at angle
\* 0, every asteroid coordinate at rest at the centre
FixedPlacement(v) == [k \in OrbitKeys(v) |-> 0]

FixedField(v) ==
    IF v = "part_000"
    THEN [count |-> AsteroidCount, positions |-> [c \in 1..MaxCells |-> 0],
          velocities |-> [c \in 1..MaxCells |-> 0]]
    ELSE NoAsteroids

\* The application opened at /solar-system: the component has mounted and
\* its effects have run, createPlanets having placed the meshes at `place`
\* and addAsteroids having returned `field`; the store holds `docs`.
InitWith(v, place, field, docs) ==
    /\ version = v
    /\ mounted = TRUE
    /\ route = "/solar-system"
    /\ orbitSpeed = InitialOrbitSpeed
    /\ showLabels = TRUE
    /\ selectedPlanet = NULL
    /\ selectedPlanetInfo = NULL
    /\ cameraMode = "orbit"
    /\ targetPlanet = NULL
    /\ closure = InitialClosure
    /\ sceneRef = 1
    /\ \E r \in SceneInit(v, 1, place, field) :
        /\ timeRef = r.timeRef
        /\ lastTime = r.lastTime
        /\ orbitAngle = r.orbitAngle
        /\ spinAngle = r.spinAngle
        /\ meshAngle = r.meshAngle
        /\ asteroids = r.asteroids
        /\ controls = r.controls
        /\ cameraPosition = r.position
        /\ planetsRef = r.planetsRef
        /\ labelsRef = r.labelsRef
        /\ sceneSprites = r.sceneSprites
    /\ listeners = ListenersOf(1)
    /\ rafNext = 2
    /\ rafPending = {1}
    /\ animationFrameRef = 1
    /\ windowSize = InitialWindow
    /\ cameraAspect = InitialWindow
    /\ rendererSize = InitialWindow
    /\ navigations = 0
    /\ store = docs
    /\ profile = ProfileClosed
    /\ detail = DetailClosed
    /\ lastEvent = NoEvent

\* every outcome of the random draws and every content of the store
Init ==
    \E v \in Versions :
        \E place \in Placements(v), field \in Fields(v), docs \in Stores :
            InitWith(v, place, field, docs)

\* the draws held at one outcome and the store empty, for the
\* specifications whose properties read neither
InitFixed ==
    \E v \in Versions : InitWith(v, FixedPlacement(v), FixedField(v), {})

\* The host runs a pending animation-frame callback with timestamp currentTime.
Frame(id, currentTime) ==
    /\ id \in rafPending
    /\ rafNext <= MaxFrames
    /\ currentTime >= lastTime
    /\ animationFrameRef' = StoreFrameId(animationFrameRef, rafNext)
    /\ rafPending' = (rafPending \ {id}) \cup {rafNext}
    /\ rafNext' = rafNext + 1
    /\ \E r \in animate(version, closure, currentTime, lastTime, timeRef,
                        orbitAngle, spinAngle, meshAngle, asteroids,
                        labelsRef, planetsRef, controls, cameraPosition) :
        /\ timeRef' = r.timeRef
        /\ lastTime' = r.lastTime
        /\ orbitAngle' = r.orbitAngle
        /\ spinAngle' = r.spinAngle
        /\ meshAngle' = r.meshAngle
        /\ asteroids' = r.asteroids
        /\ controls' = r.controls
        /\ cameraPosition' = r.position
        /\ labelsRef' = r.labelsRef
        /\ lastEvent' = [Event("frame") EXCEPT !.stages = r.stages,
                                               !.reflected = r.reflected]
    /\ UNCHANGED <<version, mounted, route, reactVars, closure, sizeVars,
                   navigations, sceneRef, planetsRef, sceneSprites, listeners,
                   pageVars>>

-----------------------------------------------------------------------------
(* Keyboard, slider and checkbox. *)

\* the increase without Math.min
IncreaseSpeedUnclamped(v, s) == s + KeyStep(v)

\* setOrbitSpeed(prev => Math.min(prev + step, 5))
IncreaseSpeed(v, s) == Min(s + KeyStep(v), OrbitSpeedMax)

\* setOrbitSpeed(prev => Math.max(prev - step, 0.1))
DecreaseSpeed(v, s) == Max(s - KeyStep(v), OrbitSpeedMin)

\* case 'Home': position.set(default), target.set(0, 0, 0) and, in part_000,
\* controls.update().  The set of possible outcomes.
HomeReset(v, cl, c, ang) ==
    LET c1 == [c EXCEPT !.target = Origin]
    IN  IF v = "part_000"
        THEN ControlsUpdate(v, cl, c1, "default", ang)
        ELSE { [controls |-> c1, position |-> "default"] }

handleKeyDown(key) ==
    /\ mounted
    /\ LET kc == KeyCase(key)
       IN  /\ showLabels' = IF kc = "labels" THEN ~showLabels ELSE showLabels
           /\ orbitSpeed' =
                CASE kc = "faster" -> IncreaseSpeed(version, orbitSpeed)
                  [] kc = "slower" -> DecreaseSpeed(version, orbitSpeed)
                  [] OTHER         -> orbitSpeed
           /\ CASE kc = "autoRotate" ->
                    /\ controls' = [controls EXCEPT !.autoRotate = ~@]
                    /\ UNCHANGED cameraPosition
                [] kc = "home" ->
                    \E u \in HomeReset(version, closure, controls, orbitAngle) :
                        /\ controls' = u.controls
                        /\ cameraPosition' = u.position
                [] OTHER -> UNCHANGED cameraVars
           /\ LET e == IF kc = "labels"
                       THEN LabelsEffect(version, ~showLabels, labelsRef,
                                         sceneSprites, planetsRef, orbitAngle,
                                         meshAngle, sceneRef)
                       ELSE [labelsRef |-> labelsRef,
                             sceneSprites |-> sceneSprites]
              IN  /\ labelsRef' = e.labelsRef
                  /\ sceneSprites' = e.sceneSprites
           /\ lastEvent' = [Event("key") EXCEPT !.key = kc, !.before = orbitSpeed]
    /\ UNCHANGED <<version, mounted, route, selectedPlanet, selectedPlanetInfo,
                   cameraMode, targetPlanet, closure, frameVars, sizeVars,
                   navigations, spinAngle, sceneRef, planetsRef, listeners,
                   meshAngle, asteroids, pageVars>>

\* onChange of the orbit-speed range input
sliderChange(value) ==
    /\ mounted
    /\ orbitSpeed' = value
    /\ lastEvent' = Event("slider")
    /\ UNCHANGED <<version, mounted, route, showLabels, selectedPlanet,
                   selectedPlanetInfo, cameraMode, targetPlanet, closure,
                   frameVars, cameraVars, sizeVars, navigations, sceneVars,
                   pageVars>>

\* onChange of the Show Labels checkbox
checkboxChange ==
    /\ mounted
    /\ showLabels' = ~showLabels
    /\ LET e == LabelsEffect(version, ~showLabels, labelsRef, sceneSprites,
                             planetsRef, orbitAngle, meshAngle, sceneRef)
       IN  /\ labelsRef' = e.labelsRef
           /\ sceneSprites' = e.sceneSprites
    /\ lastEvent' = Event("checkbox")
    /\ UNCHANGED <<version, mounted, route, orbitSpeed, selectedPlanet,
                   selectedPlanetInfo, cameraMode, targetPlanet, closure,
                   frameVars, cameraVars, sizeVars, navigations, spinAngle,
                   sceneRef, planetsRef, listeners, meshAngle, asteroids,
                   pageVars>>

-----------------------------------------------------------------------------
(* Camera mode buttons and pointer drags on the render surface. *)

CameraModes == {"orbit", "free", "planet"}

\* the buttons with one for the locked mode added
ButtonModesWithPlanet == {"orbit", "free", "planet"}

\* the modes the two buttons pass
ButtonModes == {"orbit", "free"}

\* the flags with enablePan left as it was
ModeFlagsKeepPan(c, mode) ==
    [c EXCEPT !.autoRotate = (mode = "orbit"),
              !.enableZoom = TRUE,
              !.enableRotate = TRUE]

\* the four flags handleCameraModeChange sets
ModeFlags(c, mode) ==
    [c EXCEPT !.autoRotate = (mode = "orbit"),
              !.enablePan = (mode = "free"),
              !.enableZoom = TRUE,
              !.enableRotate = TRUE]

handleCameraModeChange(mode) ==
    /\ mounted
    /\ version = "part_000"
    /\ cameraMode' = mode
    /\ LET c1 == ModeFlags(controls, mode)
       IN  IF mode = "free"
           THEN /\ controls' = [c1 EXCEPT !.target = Origin]
                /\ cameraPosition' = "default"
           ELSE IF /\ mode = "planet"
                   /\ targetPlanet # NULL
                   /\ targetPlanet \in PlanetsRefKeys(version)
           THEN /\ controls' = [c1 EXCEPT !.target =
                                    WorldPosition(targetPlanet, orbitAngle)]
                /\ UNCHANGED cameraPosition
           ELSE /\ controls' = c1
                /\ UNCHANGED cameraPosition
    /\ lastEvent' = [Event("mode") EXCEPT !.mode = mode]
    /\ UNCHANGED <<version, mounted, route, orbitSpeed, showLabels,
                   selectedPlanet, selectedPlanetInfo, targetPlanet, closure,
                   frameVars, sizeVars, navigations, sceneVars, pageVars>>

Drags == {"rotate", "dolly", "pan"}

\* OrbitControls' own pointer and wheel listeners on renderer.domElement:
\* a drag the flags allow leaves a residue for the next update().
controlsPointer(drag) ==
    /\ mounted
    /\ controls' =
         CASE drag = "rotate" /\ controls.enableRotate ->
                [controls EXCEPT !.rotatePending = TRUE]
           [] drag = "dolly" /\ controls.enableZoom ->
                [controls EXCEPT !.rotatePending = TRUE]
           [] drag = "pan" /\ controls.enablePan ->
                [controls EXCEPT !.panPending = TRUE]
           [] OTHER -> controls
    /\ lastEvent' = Event("drag")
    /\ UNCHANGED <<version, mounted, route, reactVars, closure, frameVars,
                   cameraPosition, sizeVars, navigations, sceneVars, pageVars>>

-----------------------------------------------------------------------------
(* Picking. *)

\* The name handed to setSelectedPlanet and navigate, NULL when no hit passes.
PickedName(hits) ==
    IF FirstPick(hits) = 0 THEN NULL ELSE hits[FirstPick(hits)].name

\* the loop without its break: one navigate per hit that passes the test
EmitCountNoBreak(hits) ==
    Cardinality({ i \in DOMAIN hits : IsPlanetOrSun(hits[i]) })

\* How many times the loop calls navigate: it breaks at the first hit that
\* passes the test.
EmitCount(hits) == IF FirstPick(hits) = 0 THEN 0 ELSE 1

\* The window 'click' listener, given the intersections of the pointer ray.
handleClick(hits) ==
    /\ mounted
    /\ \E id \in {PickedName(hits)} :
         IF id = NULL
         THEN UNCHANGED <<selectedPlanet, selectedPlanetInfo, route,
                          navigations>>
         ELSE \E n \in {EmitCount(hits)} :
                /\ navigations + n <= MaxNav
                /\ selectedPlanet' = id
                /\ selectedPlanetInfo' =
                     IF version = "part_000" THEN id ELSE selectedPlanetInfo
                /\ route' = "/planet/" \o id
                /\ navigations' = navigations + n
    /\ lastEvent' = [Event("click") EXCEPT !.hits = hits]
    /\ UNCHANGED <<version, mounted, orbitSpeed, showLabels, cameraMode,
                   targetPlanet, closure, frameVars, cameraVars, sizeVars,
                   sceneVars, pageVars>>

-----------------------------------------------------------------------------
(* Window resize. *)

WindowSizes == (0..MaxDim) \X (0..MaxDim)

\* The host resizes the window and dispatches 'resize'; handleResize runs
\* while the scene's listener is attached.
handleResize(size) ==
    /\ windowSize' = size
    /\ IF mounted
       THEN /\ cameraAspect' = size
            /\ rendererSize' = size
       ELSE UNCHANGED <<cameraAspect, rendererSize>>
    /\ lastEvent' = Event("resize")
    /\ UNCHANGED <<version, mounted, route, reactVars, closure, frameVars,
                   cameraVars, navigations, sceneVars, pageVars>>

-----------------------------------------------------------------------------
(* Unmounting and mounting the component. *)

\* a clean-up that cancels nothing
CancelNothing(pending, ref) == pending

\* if (animationFrameRef.current) cancelAnimationFrame(animationFrameRef.current)
CancelFrame(pending, ref) == IF ref # 0 THEN pending \ {ref} ELSE pending

\* clean-ups that remove no listener
RemovedNothing(scene) == {}

\* the listeners the effect clean-ups remove: resize, click and keydown.
\* controls.dispose() is not called.
RemovedAtCleanup(scene) ==
    { [on |-> n, scene |-> scene] : n \in {"resize", "click", "keydown"} }

\* The effect clean-ups: the window listeners go, the frame request whose id
\* is in animationFrameRef is cancelled, the canvas leaves the document and
\* the meshes' geometries and materials are disposed.  No ref is cleared.
\* The component's React state is dropped.
Unmount ==
    /\ mounted
    /\ mounted' = FALSE
    /\ route' = IF route = "/solar-system" THEN "/" ELSE route
    /\ rafPending' = CancelFrame(rafPending, animationFrameRef)
    /\ listeners' = listeners \ RemovedAtCleanup(sceneRef)
    /\ orbitSpeed' = InitialOrbitSpeed
    /\ showLabels' = TRUE
    /\ selectedPlanet' = NULL
    /\ selectedPlanetInfo' = NULL
    /\ cameraMode' = "orbit"
    /\ targetPlanet' = NULL
    /\ lastEvent' = Event("unmount")
    /\ UNCHANGED <<version, closure, timeRef, lastTime, orbitAngle, rafNext,
                   animationFrameRef, cameraVars, sizeVars, navigations,
                   spinAngle, sceneRef, planetsRef, labelsRef, sceneSprites,
                   meshAngle, asteroids, pageVars>>

\* The route returns to /solar-system: a fresh component instance, with
\* fresh refs, runs the scene-initialisation effect, createPlanets placing
\* the meshes at `place` and addAsteroids returning `field`.
Mount(place, field) ==
    /\ ~mounted
    /\ ~profile.open
    /\ ~detail.open
    /\ rafNext <= MaxFrames
    /\ mounted' = TRUE
    /\ route' = "/solar-system"
    /\ orbitSpeed' = InitialOrbitSpeed
    /\ showLabels' = TRUE
    /\ selectedPlanet' = NULL
    /\ selectedPlanetInfo' = NULL
    /\ cameraMode' = "orbit"
    /\ targetPlanet' = NULL
    /\ closure' = InitialClosure
    /\ sceneRef' = sceneRef + 1
    /\ \E r \in SceneInit(version, sceneRef + 1, place, field) :
        /\ timeRef' = r.timeRef
        /\ lastTime' = r.lastTime
        /\ orbitAngle' = r.orbitAngle
        /\ spinAngle' = r.spinAngle
        /\ meshAngle' = r.meshAngle
        /\ asteroids' = r.asteroids
        /\ controls' = r.controls
        /\ cameraPosition' = r.position
        /\ planetsRef' = r.planetsRef
        /\ labelsRef' = r.labelsRef
        /\ sceneSprites' = r.sceneSprites
    /\ listeners' = listeners \cup ListenersOf(sceneRef + 1)
    /\ animationFrameRef' = StoreFrameId(animationFrameRef, rafNext)
    /\ rafPending' = rafPending \cup {rafNext}
    /\ rafNext' = rafNext + 1
    /\ cameraAspect' = windowSize
    /\ rendererSize' = windowSize
    /\ lastEvent' = Event("mount")
    /\ UNCHANGED <<version, windowSize, navigations, pageVars>>

-----------------------------------------------------------------------------
(* The Profile page.  A remote call is a promise: the handler runs up to    *)
(* its await in the step that starts the call, and its continuation runs in *)
(* the step that settles it.  A call still in flight when its page closes   *)
(* settles against a component that is gone; whether a write of such a call *)
(* reaches the store is decided at the close.                               *)

\* <Route path="/profile">: the page mounts and its effect starts
\* fetchFavorites, which runs up to `await getDocs(q)`.
OpenProfile ==
    /\ ~mounted
    /\ ~profile.open
    /\ ~detail.open
    /\ route' = "/profile"
    /\ profile' = [ProfileClosed EXCEPT !.open = TRUE, !.fetching = TRUE]
    /\ lastEvent' = Event("openProfile")
    /\ UNCHANGED <<version, mounted, reactVars, closure, frameVars, cameraVars,
                   sizeVars, navigations, sceneVars, store, detail>>

\* getDocs resolves: setFavorites(favoritesData), then setLoading(false)
fetchFavoritesDone ==
    /\ profile.open
    /\ profile.fetching
    /\ profile' = [profile EXCEPT !.favorites = store, !.fetched = store,
                                  !.loading = FALSE, !.fetching = FALSE]
    /\ lastEvent' = Event("fetched")
    /\ UNCHANGED <<version, mounted, route, reactVars, closure, frameVars,
                   cameraVars, sizeVars, navigations, sceneVars, store, detail>>

\* getDocs rejects: the catch logs, then setLoading(false)
fetchFavoritesFail ==
    /\ profile.open
    /\ profile.fetching
    /\ profile' = [profile EXCEPT !.loading = FALSE, !.fetching = FALSE]
    /\ lastEvent' = Event("fetchFailed")
    /\ UNCHANGED <<version, mounted, route, reactVars, closure, frameVars,
                   cameraVars, sizeVars, navigations, sceneVars, store, detail>>

\* favorites.filter(fav => fav.id !== favoriteId), `favorites` being the
\* list of the render whose button was clicked
FilterFavorites(current, seen, id) == seen \ {id}

\* The Remove button of a displayed favourite: removeFavorite runs up to
\* `await deleteDoc(...)`, holding the `favorites` of its render.
removeFavorite(id) ==
    /\ profile.open
    /\ ~profile.loading
    /\ id \in profile.favorites
    /\ profile' = [profile EXCEPT !.removals =
                        @ \cup {[id |-> id, seen |-> profile.favorites]}]
    /\ lastEvent' = Event("remove")
    /\ UNCHANGED <<version, mounted, route, reactVars, closure, frameVars,
                   cameraVars, sizeVars, navigations, sceneVars, store, detail>>

\* deleteDoc resolves: the document is gone and setFavorites is given the
\* filtered list.
removeFavoriteDone(call) ==
    /\ profile.open
    /\ call \in profile.removals
    /\ store' = store \ {call.id}
    /\ profile' = [profile EXCEPT
                        !.favorites = FilterFavorites(@, call.seen, call.id),
                        !.deleted = @ \cup {call.id},
                        !.removals = @ \ {call}]
    /\ lastEvent' = Event("removed")
    /\ UNCHANGED <<version, mounted, route, reactVars, closure, frameVars,
                   cameraVars, sizeVars, navigations, sceneVars, detail>>

\* deleteDoc rejects: the catch logs
removeFavoriteFail(call) ==
    /\ profile.open
    /\ call \in profile.removals
    /\ profile' = [profile EXCEPT !.removals = @ \ {call}]
    /\ lastEvent' = Event("removeFailed")
    /\ UNCHANGED <<version, mounted, route, reactVars, closure, frameVars,
                   cameraVars, sizeVars, navigations, sceneVars, store, detail>>

\* The user leaves /profile; of the deletes in flight, those in `landed`
\* reach the store.
CloseProfile(landed) ==
    /\ profile.open
    /\ landed \subseteq { c.id : c \in profile.removals }
    /\ store' = store \ landed
    /\ profile' = ProfileClosed
    /\ route' = "/"
    /\ lastEvent' = Event("closeProfile")
    /\ UNCHANGED <<version, mounted, reactVars, closure, frameVars, cameraVars,
                   sizeVars, navigations, sceneVars, detail>>

-----------------------------------------------------------------------------
(* The PlanetDetail page.  getDoc takes effect at the store when the store  *)
(* reads the document and its promise resolves later; setDoc and deleteDoc  *)
(* take effect at the store and their promises resolve later.               *)

\* <Route path="/planet/:id">: the page mounts; when a user is signed in its
\* effect starts checkIfFavorite, which runs up to `await getDoc(...)`.
OpenDetail(id, user) ==
    /\ ~mounted
    /\ ~profile.open
    /\ ~detail.open
    /\ route' = "/planet/" \o id
    /\ detail' = [DetailClosed EXCEPT !.open = TRUE, !.user = user, !.id = id,
                        !.check = IF user THEN "sent" ELSE "none"]
    /\ lastEvent' = Event("openDetail")
    /\ UNCHANGED <<version, mounted, reactVars, closure, frameVars, cameraVars,
                   sizeVars, navigations, sceneVars, store, profile>>

\* the store reads the document for the getDoc in flight
checkRead ==
    /\ detail.open
    /\ detail.check = "sent"
    /\ detail' = [detail EXCEPT !.check = "read",
                                !.checkResult = (detail.id \in store)]
    /\ lastEvent' = Event("checkRead")
    /\ UNCHANGED <<version, mounted, route, reactVars, closure, frameVars,
                   cameraVars, sizeVars, navigations, sceneVars, store,
                   profile>>

\* getDoc resolves: setIsFavorite(docSnap.exists())
checkIfFavoriteDone ==
    /\ detail.open
    /\ detail.check = "read"
    /\ detail' = [detail EXCEPT !.check = "done",
                                !.isFavorite = detail.checkResult]
    /\ lastEvent' = Event("checked")
    /\ UNCHANGED <<version, mounted, route, reactVars, closure, frameVars,
                   cameraVars, sizeVars, navigations, sceneVars, store,
                   profile>>

\* getDoc rejects: the catch logs
checkIfFavoriteFail ==
    /\ detail.open
    /\ detail.check \in {"sent", "read"}
    /\ detail' = [detail EXCEPT !.check = "done", !.failed = TRUE]
    /\ lastEvent' = Event("checkFailed")
    /\ UNCHANGED <<version, mounted, route, reactVars, closure, frameVars,
                   cameraVars, sizeVars, navigations, sceneVars, store,
                   profile>>

\* if (isFavorite) deleteDoc(...) else setDoc(...)
ToggleOp(isFavorite) == IF isFavorite THEN "delete" ELSE "set"

\* The favourite button (shown to a signed-in user, disabled while loading):
\* toggleFavorite runs up to its await, with the isFavorite of its render.
toggleFavorite ==
    /\ detail.open
    /\ detail.user
    /\ ~detail.loading
    /\ detail' = [detail EXCEPT !.loading = TRUE, !.toggle = "sent",
                                !.toggleOp = ToggleOp(detail.isFavorite)]
    /\ lastEvent' = Event("toggle")
    /\ UNCHANGED <<version, mounted, route, reactVars, closure, frameVars,
                   cameraVars, sizeVars, navigations, sceneVars, store,
                   profile>>

\* the store after the write of a toggle
Written(docs, op, id) ==
    IF op = "set" THEN docs \cup {id} ELSE docs \ {id}

\* the store applies the setDoc or deleteDoc in flight
toggleApply ==
    /\ detail.open
    /\ detail.toggle = "sent"
    /\ store' = Written(store, detail.toggleOp, detail.id)
    /\ detail' = [detail EXCEPT !.toggle = "applied"]
    /\ lastEvent' = Event("toggleApplied")
    /\ UNCHANGED <<version, mounted, route, reactVars, closure, frameVars,
                   cameraVars, sizeVars, navigations, sceneVars, profile>>

\* the write resolves: setIsFavorite(false) after deleteDoc, setIsFavorite(true)
\* after setDoc, then setLoading(false)
toggleFavoriteDone ==
    /\ detail.open
    /\ detail.toggle = "applied"
    /\ detail' = [detail EXCEPT !.isFavorite = (detail.toggleOp = "set"),
                                !.loading = FALSE, !.toggle = "none",
                                !.toggleOp = "none"]
    /\ lastEvent' = Event("toggled")
    /\ UNCHANGED <<version, mounted, route, reactVars, closure, frameVars,
                   cameraVars, sizeVars, navigations, sceneVars, store,
                   profile>>

\* the write rejects: the catch logs, then setLoading(false)
toggleFavoriteFail ==
    /\ detail.open
    /\ detail.toggle = "sent"
    /\ detail' = [detail EXCEPT !.loading = FALSE, !.toggle = "none",
                                !.toggleOp = "none", !.failed = TRUE]
    /\ lastEvent' = Event("toggleFailed")
    /\ UNCHANGED <<version, mounted, route, reactVars, closure, frameVars,
                   cameraVars, sizeVars, navigations, sceneVars, store,
                   profile>>

\* The user leaves /planet/:id; a write in flight that has not reached the
\* store reaches it when `lands` is true.
CloseDetail(lands) ==
    /\ detail.open
    /\ store' = IF detail.toggle = "sent" /\ lands
                THEN Written(store, detail.toggleOp, detail.id) ELSE store
    /\ detail' = DetailClosed
    /\ route' = "/"
    /\ lastEvent' = Event("closeDetail")
    /\ UNCHANGED <<version, mounted, reactVars, closure, frameVars, cameraVars,
                   sizeVars, navigations, sceneVars, profile>>

-----------------------------------------------------------------------------

Next ==
    \/ \E id \in rafPending, now \in 0..MaxHostTime : Frame(id, now)
    \/ \E key \in Keys : handleKeyDown(key)
    \/ \E value \in SliderValues : sliderChange(value)
    \/ checkboxChange
    \/ \E mode \in ButtonModes : handleCameraModeChange(mode)
    \/ \E drag \in Drags : controlsPointer(drag)
    \/ \E hits \in HitLists(version) : handleClick(hits)
    \/ \E size \in WindowSizes : handleResize(size)
    \/ Unmount
    \/ \E place \in Placements(version), field \in Fields(version) :
            Mount(place, field)
    \/ OpenProfile
    \/ fetchFavoritesDone
    \/ fetchFavoritesFail
    \/ \E id \in PlanetIds : removeFavorite(id)
    \/ \E call \in profile.removals : removeFavoriteDone(call)
    \/ \E call \in profile.removals : removeFavoriteFail(call)
    \/ \E landed \in SUBSET PlanetIds : CloseProfile(landed)
    \/ \E id \in PlanetIds, user \in BOOLEAN : OpenDetail(id, user)
    \/ checkRead
    \/ checkIfFavoriteDone
    \/ checkIfFavoriteFail
    \/ toggleFavorite
    \/ toggleApply
    \/ toggleFavoriteDone
    \/ toggleFavoriteFail
    \/ \E lands \in BOOLEAN : CloseDetail(lands)

Spec == Init /\ [][Next]_vars

-----------------------------------------------------------------------------
(* Focused specifications.  Each takes every step of Next that reads or    *)
(* writes the variables its properties speak of, and leaves out inputs of   *)
(* handlers that neither read nor write them, so that the inputs it keeps   *)
(* can be enumerated in full.                                               *)

\* the keys that act on the orbit speed, and one that does nothing
SpeedKeys == {"+", "=", "-", "_", "Escape"}

\* Orbit speed and the frame loop: every speed key, every slider value.
NextSpeed ==
    \/ \E id \in rafPending, now \in 0..MaxHostTime : Frame(id, now)
    \/ \E key \in SpeedKeys : handleKeyDown(key)
    \/ \E value \in SliderValues : sliderChange(value)
    \/ Unmount
    \/ Mount(FixedPlacement(version), FixedField(version))

SpecSpeed == InitFixed /\ [][NextSpeed]_vars

\* Picking: every hit list over every object of the scene, until the page
\* the click navigates to replaces the component.
NextPick ==
    \/ \E hits \in HitLists(version) : handleClick(hits)
    \/ Unmount

SpecPick == InitFixed /\ [][NextPick]_vars

\* the objects a click meets in SpecEmit: one of each way handleClick treats
\* an object (the sun, a planet, a moon, an unnamed Mesh, a non-Mesh)
EmitObjects(v) ==
    { o \in SceneObjects(v) :
        o.kind \in {"sun", "sunGlow", "stars", "moon"} \/ o.name = "earth" }

EmitHitLists000 == ListsOver(EmitObjects("part_000"))

EmitHitLists001 == ListsOver(EmitObjects("part_001"))

EmitHitLists(v) == IF v = "part_000" THEN EmitHitLists000 ELSE EmitHitLists001

\* keys and window sizes that stand for keyboard and resize events in SpecEmit
EmitKeys == {"Home", "Escape"}

EmitSizes == { << 0, 0 >> }

\* Clicks among frames, keys and resizes.
NextEmit ==
    \/ \E hits \in EmitHitLists(version) : handleClick(hits)
    \/ \E id \in rafPending, now \in 0..MaxHostTime : Frame(id, now)
    \/ \E key \in EmitKeys : handleKeyDown(key)
    \/ \E size \in EmitSizes : handleResize(size)
    \/ Unmount
    \/ Mount(FixedPlacement(version), FixedField(version))

SpecEmit == InitFixed /\ [][NextEmit]_vars

\* the keys that act on the camera, and one that does nothing
CameraKeys == {"r", "R", "Home", "Escape"}

\* Camera: mode buttons, drags, camera keys, frames.
NextCamera ==
    \/ \E mode \in ButtonModes : handleCameraModeChange(mode)
    \/ \E drag \in Drags : controlsPointer(drag)
    \/ \E key \in CameraKeys : handleKeyDown(key)
    \/ \E id \in rafPending, now \in 0..MaxHostTime : Frame(id, now)
    \/ Unmount
    \/ Mount(FixedPlacement(version), FixedField(version))

SpecCamera == InitFixed /\ [][NextCamera]_vars

\* the label keys, and one that does nothing
SceneKeys == {"l", "L", "Escape"}

\* window sizes with zero width, zero height and non-zero area
SceneSizes == { << 0, 1 >>, << MaxDim, 0 >>, << MaxDim, 1 >> }

\* Scene life cycle: frames, label toggles, resizes, unmount and mount.
NextScene ==
    \/ \E id \in rafPending, now \in 0..MaxHostTime : Frame(id, now)
    \/ \E key \in SceneKeys : handleKeyDown(key)
    \/ checkboxChange
    \/ \E size \in SceneSizes : handleResize(size)
    \/ Unmount
    \/ Mount(FixedPlacement(version), FixedField(version))

SpecScene == InitFixed /\ [][NextScene]_vars

\* keys of the label, auto-rotate and home cases, and one with no case
EventKeys == {"l", "R", "Home", "Escape"}

\* the hit lists a click is given in SpecEvents: a miss and a planet
EventHitLists == { << >>, << Obj("planet", "Mesh", "earth") >> }

EventSizes == { << MaxDim, 1 >> }

EventDrags == {"rotate"}

\* Every kind of event the component handles, among frames: keys, mode
\* buttons, drags, clicks, resizes, unmount and mount.
NextEvents ==
    \/ \E id \in rafPending, now \in 0..MaxHostTime : Frame(id, now)
    \/ \E key \in EventKeys : handleKeyDown(key)
    \/ \E mode \in ButtonModes : handleCameraModeChange(mode)
    \/ \E drag \in EventDrags : controlsPointer(drag)
    \/ \E hits \in EventHitLists : handleClick(hits)
    \/ \E size \in EventSizes : handleResize(size)
    \/ Unmount
    \/ Mount(FixedPlacement(version), FixedField(version))

SpecEvents == InitFixed /\ [][NextEvents]_vars

\* every placement createPlanets can draw; the asteroids at rest
InitPlaced ==
    \E v \in Versions :
        \E place \in Placements(v) : InitWith(v, place, FixedField(v), {})

\* a key that raises the orbit speed and one that lowers it
KinematicsKeys == {"+", "-"}

\* Kinematics: frames from every placement, among changes of the orbit
\* speed, unmount and mount.
NextKinematics ==
    \/ \E id \in rafPending, now \in 0..MaxHostTime : Frame(id, now)
    \/ \E key \in KinematicsKeys : handleKeyDown(key)
    \/ Unmount
    \/ \E place \in Placements(version) : Mount(place, FixedField(version))

SpecKinematics == InitPlaced /\ [][NextKinematics]_vars

\* every field addAsteroids can return; the meshes placed at angle 0
InitField ==
    \E v \in Versions :
        \E field \in Fields(v) : InitWith(v, FixedPlacement(v), field, {})

\* Asteroids: frames from every field, among resizes, unmount and mount.
NextAsteroids ==
    \/ \E id \in rafPending, now \in 0..MaxHostTime : Frame(id, now)
    \/ \E size \in EventSizes : handleResize(size)
    \/ Unmount
    \/ \E field \in Fields(version) : Mount(FixedPlacement(version), field)

SpecAsteroids == InitField /\ [][NextAsteroids]_vars

\* every content of the store; the random draws held at one outcome
InitStored ==
    \E v \in Versions :
        \E docs \in Stores : InitWith(v, FixedPlacement(v), FixedField(v), docs)

\* The Profile page: opened after the scene is left, its fetch, its
\* removals in every interleaving, its close.
NextProfile ==
    \/ Unmount
    \/ Mount(FixedPlacement(version), FixedField(version))
    \/ OpenProfile
    \/ fetchFavoritesDone
    \/ fetchFavoritesFail
    \/ \E id \in PlanetIds : removeFavorite(id)
    \/ \E call \in profile.removals : removeFavoriteDone(call)
    \/ \E call \in profile.removals : removeFavoriteFail(call)
    \/ \E landed \in SUBSET PlanetIds : CloseProfile(landed)

SpecProfile == InitStored /\ [][NextProfile]_vars

\* The PlanetDetail page: opened after the scene is left, its check and its
\* toggles in every interleaving, its close.
NextDetail ==
    \/ Unmount
    \/ Mount(FixedPlacement(version), FixedField(version))
    \/ \E id \in PlanetIds, user \in BOOLEAN : OpenDetail(id, user)
    \/ checkRead
    \/ checkIfFavoriteDone
    \/ checkIfFavoriteFail
    \/ toggleFavorite
    \/ toggleApply
    \/ toggleFavoriteDone
    \/ toggleFavoriteFail
    \/ \E lands \in BOOLEAN : CloseDetail(lands)

SpecDetail == InitStored /\ [][NextDetail]_vars

-----------------------------------------------------------------------------
(* Properties.  Speeds are in tenths: 1 is 0.1 and 50 is 5.0.              *)

\* index of the nearest hit whose kind is in K, 0 when there is none
NearestOfKinds(hits, K) ==
    LET S == { i \in DOMAIN hits : hits[i].kind \in K }
    IN  IF S = {} THEN 0 ELSE CHOOSE i \in S : \A j \in S : i <= j

\* the kinds of the decorative objects
DecorKinds == {"sunGlow", "orbitLine", "saturnRing", "stars", "asteroids",
               "largeStar", "label"}

\* C1: after any sequence of speed keys and slider changes the orbit-speed
\* multiplier is within [0.1, 5.0]; an increase key at 5.0 leaves it at 5.0
\* and a decrease key at 0.1 leaves it at 0.1.
C1_OrbitSpeedClamped ==
    /\ orbitSpeed \in 1..50
    /\ (lastEvent.op = "key" /\ lastEvent.key = "faster" /\ lastEvent.before = 50)
            => orbitSpeed = 50
    /\ (lastEvent.op = "key" /\ lastEvent.key = "slower" /\ lastEvent.before = 1)
            => orbitSpeed = 1

\* C1: an increase key was pressed at 5.0 and the multiplier is still 5.0.
C1_IncreaseAtMax ==
    /\ lastEvent.op = "key"
    /\ lastEvent.key = "faster"
    /\ lastEvent.before = 50
    /\ orbitSpeed = 50

\* C2: every frame computes each planet's and moon's orbit angle with the
\* multiplier current at that frame, so that the frame after a change to s'
\* uses s'.
C2_FrameUsesCurrentSpeed ==
    [][lastEvent'.op = "frame" =>
        \A k \in OrbitKeys(version) :
            orbitAngle'[k] = IF version = "part_000"
                             THEN timeRef' * OrbitRate(k) * orbitSpeed
                             ELSE orbitAngle[k] + OrbitRate(k) * orbitSpeed]_vars

\* C3 (as amended): after a click whose ray meets the sun or a planet, the
\* identifier selected and navigated to is that of the nearest hit that is
\* the sun or a planet; decorative objects and moons nearer than it are
\* passed over.  The selection is a function of the hit list.
C3_NearestSunOrPlanetSelected ==
    LET h == lastEvent.hits
        n == NearestOfKinds(h, {"sun", "planet"})
    IN  (lastEvent.op = "click" /\ n # 0) =>
            /\ selectedPlanet = h[n].name
            /\ route = "/planet/" \o h[n].name

\* C3: a decorative object is the nearest hit, a planet lies behind it, and
\* the planet is the one selected.
C3_DecorInFront ==
    /\ lastEvent.op = "click"
    /\ Len(lastEvent.hits) = 2
    /\ lastEvent.hits[1].kind \in DecorKinds
    /\ lastEvent.hits[2].kind = "planet"
    /\ selectedPlanet = lastEvent.hits[2].name

\* C3 (as stated): after a click whose ray meets a pickable body (the sun, a
\* planet or a moon), the identifier selected is that of the nearest one.
C3_NearestPickableSelected ==
    LET h == lastEvent.hits
        n == NearestOfKinds(h, {"sun", "planet", "moon"})
    IN  (lastEvent.op = "click" /\ n # 0) =>
            /\ selectedPlanet = h[n].name
            /\ route = "/planet/" \o h[n].name

\* C4: a click whose ray meets no sun, planet or moon changes nothing: the
\* selection, the route, the emission count, the camera and the scene nodes
\* are as before.
C4_MissChangesNothing ==
    [][(/\ lastEvent'.op = "click"
        /\ NearestOfKinds(lastEvent'.hits, {"sun", "planet", "moon"}) = 0)
        => UNCHANGED <<selectedPlanet, selectedPlanetInfo, route, navigations,
                       cameraMode, targetPlanet, controls, cameraPosition,
                       timeRef, orbitAngle, mounted>>]_vars

\* C4: a body was selected, then a click met only decorative objects, and the
\* body is still the selection.
C4_MissKeepsSelection ==
    /\ lastEvent.op = "click"
    /\ lastEvent.hits # << >>
    /\ \A i \in DOMAIN lastEvent.hits : lastEvent.hits[i].kind \in DecorKinds
    /\ selectedPlanet \in PlanetIds
    /\ navigations = 1

\* C5 (as amended): a click whose ray meets the sun or a planet makes exactly
\* one navigate call; every other step (a frame, a key, a resize, a click
\* that meets only moons and decorative objects) makes none.
C5_OneEmissionPerSunOrPlanetClick ==
    [][IF /\ lastEvent'.op = "click"
          /\ NearestOfKinds(lastEvent'.hits, {"sun", "planet"}) # 0
       THEN navigations' = navigations + 1
       ELSE navigations' = navigations]_vars

\* C5: the ray met a planet and the sun behind it, and one navigate call was
\* made.
C5_TwoBodiesOneEmission ==
    /\ lastEvent.op = "click"
    /\ Len(lastEvent.hits) = 2
    /\ lastEvent.hits[1].kind = "planet"
    /\ lastEvent.hits[2].kind = "sun"
    /\ navigations = 1

\* C5 (as stated): a click whose ray meets a pickable body (the sun, a planet
\* or a moon) makes exactly one navigate call, and no other step makes one.
C5_OneEmissionPerPickableClick ==
    [][IF /\ lastEvent'.op = "click"
          /\ NearestOfKinds(lastEvent'.hits, {"sun", "planet", "moon"}) # 0
       THEN navigations' = navigations + 1
       ELSE navigations' = navigations]_vars

\* C6 (as amended): the pickable set is the sun and every planet.  A click
\* selects the nearest sun or planet on the ray and nothing else: a moon or a
\* decorative object that is nearer is passed over, and a click that meets
\* only moons and decorative objects selects nothing.
C6_SunAndPlanetsPickable ==
    [][lastEvent'.op = "click" =>
        LET h == lastEvent'.hits
            n == NearestOfKinds(h, {"sun", "planet"})
        IN  IF n # 0
            THEN /\ selectedPlanet' = h[n].name
                 /\ selectedPlanet' \in {"sun"} \cup PlanetIds
            ELSE UNCHANGED <<selectedPlanet, selectedPlanetInfo, route,
                             navigations>>]_vars

\* C6: a moon is the nearest hit, its planet lies behind it, and the planet
\* is the one selected.
C6_MoonPassedOver ==
    /\ lastEvent.op = "click"
    /\ Len(lastEvent.hits) = 2
    /\ lastEvent.hits[1].kind = "moon"
    /\ lastEvent.hits[2].kind = "planet"
    /\ selectedPlanet = lastEvent.hits[2].name

\* C6 (as stated): after a click whose nearest intersected body is a moon,
\* the selection is that moon's identifier planetId_moonId.
C6_MoonSelected ==
    LET h == lastEvent.hits
        n == NearestOfKinds(h, {"sun", "planet", "moon"})
    IN  (lastEvent.op = "click" /\ n # 0 /\ h[n].kind = "moon") =>
            /\ h[n].name \in MoonKeys
            /\ selectedPlanet = h[n].name

\* C7: a mode switch changes the mode and the control flags in one step.  In
\* the state the next frame or input event finds, the mode is the requested
\* one; after a switch to Orbit auto-rotation is on and panning is off; after
\* a switch to Free auto-rotation is off and pan, zoom and rotate are on.
C7_ModeSwitchAtomic ==
    lastEvent.op = "mode" =>
        /\ cameraMode = lastEvent.mode
        /\ lastEvent.mode = "orbit" =>
                controls.autoRotate /\ ~controls.enablePan
        /\ lastEvent.mode = "free" =>
                /\ ~controls.autoRotate
                /\ controls.enablePan
                /\ controls.enableZoom
                /\ controls.enableRotate

\* C7: the Orbit button was pressed; the mode is Orbit, auto-rotation is on
\* and panning, on since scene initialisation, is off.
C7_SwitchedToOrbit ==
    /\ lastEvent.op = "mode"
    /\ lastEvent.mode = "orbit"
    /\ cameraMode = "orbit"
    /\ controls.autoRotate
    /\ ~controls.enablePan

\* C8: in every reachable state of the page with camera modes, mode Orbit
\* implies that the camera auto-rotates and panning is disabled, and mode
\* Free implies that auto-rotation is off and pan, zoom and rotate are on.
C8_ModeImpliesFlags ==
    (version = "part_000" /\ mounted) =>
        /\ cameraMode = "orbit" =>
                controls.autoRotate /\ ~controls.enablePan
        /\ cameraMode = "free" =>
                /\ ~controls.autoRotate
                /\ controls.enablePan
                /\ controls.enableZoom
                /\ controls.enableRotate

\* C9: after the Home key the eye is at the default position the scene
\* initialisation sets and the look-at target is the world origin; the camera
\* mode and the auto-rotate and pan flags are as before.
C9_HomeResetsCamera ==
    [][(lastEvent'.op = "key" /\ lastEvent'.key = "home") =>
        /\ cameraPosition' = "default"
        /\ controls'.target = Origin
        /\ cameraMode' = cameraMode
        /\ controls'.autoRotate = controls.autoRotate
        /\ controls'.enablePan = controls.enablePan]_vars

\* C12: the scene holds label sprites exactly when label visibility is on:
\* when it is off no label sprite is in the scene and the label index is
\* empty; when it is on there is one sprite for the sun and one per planet.
C12_LabelsIffVisible ==
    mounted =>
        IF showLabels
        THEN /\ DOMAIN labelsRef = LabelIds
             /\ \A id \in LabelIds : sceneSprites[id] = 1
        ELSE /\ DOMAIN labelsRef = {}
             /\ \A id \in LabelIds : sceneSprites[id] = 0

\* C13: after a frame with labels visible, each label is at its body's world
\* position raised by the body's display radius plus 2.
C13_LabelAboveBody ==
    (lastEvent.op = "frame" /\ showLabels) =>
        \A id \in DOMAIN labelsRef :
            /\ labelsRef[id].xz = WorldXZ(version, id, orbitAngle, meshAngle)
            /\ labelsRef[id].y = WorldY(version, id, timeRef) + PlanetSize(id) + 2

\* C14: once the scene clean-up has run no animation-frame request is
\* pending, so no animate callback runs and none is scheduled, whenever the
\* clean-up runs; a frame runs only while the scene is mounted.
C14_NoFrameAfterTeardown ==
    /\ ~mounted => rafPending = {}
    /\ lastEvent.op = "frame" => mounted

\* C14: the scene was torn down right after its initialisation, before the
\* first scheduled callback fired, and no request is pending.
C14_TornDownBeforeFirstFrame ==
    /\ ~mounted
    /\ lastEvent.op = "unmount"
    /\ rafNext = 2
    /\ rafPending = {}

\* C15: after teardown the frame loop is stopped, the identifier index, the
\* label index and the scene reference are empty, no label sprite is left in
\* the scene, and no listener the scene registered is attached.
C15_TeardownReleasesAll ==
    ~mounted =>
        /\ rafPending = {}
        /\ DOMAIN planetsRef = {}
        /\ DOMAIN labelsRef = {}
        /\ \A id \in LabelIds : sceneSprites[id] = 0
        /\ sceneRef = 0
        /\ listeners = {}

\* C16: while a scene is mounted, also after repeated teardown and
\* re-initialisation, exactly one frame request is pending; the identifier
\* index holds every body key, each mapped to a node of the live scene; every
\* label is a sprite of the live scene, at most one per body; and the window
\* listeners attached are those of the live scene.
C16_OneLiveScene ==
    mounted =>
        /\ rafPending = {animationFrameRef}
        /\ DOMAIN planetsRef = PlanetsRefKeys(version)
        /\ \A k \in DOMAIN planetsRef : planetsRef[k] = sceneRef
        /\ \A id \in DOMAIN labelsRef : labelsRef[id].scene = sceneRef
        /\ \A id \in LabelIds : sceneSprites[id] <= 1
        /\ \A l \in listeners : l.on # "controls" => l.scene = sceneRef

\* C16: the scene has been torn down and initialised again twice.
C16_ThirdScene ==
    /\ mounted
    /\ sceneRef = 3
    /\ Cardinality(rafPending) = 1

\* C17: the spin angle of the sun, every planet and every moon is a function
\* of simulation time alone: time times the body's spin rate in part_000,
\* one spin rate more per frame in part_001, whatever the orbit-speed
\* multiplier is or was.
C17_SpinIndependentOfSpeed ==
    /\ [](version = "part_000" =>
            \A k \in SpinKeys(version) : spinAngle[k] = timeRef * SpinRate(k))
    /\ [][version = "part_001" =>
            IF lastEvent'.op = "frame"
            THEN \A k \in SpinKeys(version) :
                    spinAngle'[k] = spinAngle[k] + SpinRate(k)
            ELSE lastEvent'.op = "mount" \/ UNCHANGED spinAngle]_vars

\* C17: a frame ran while the multiplier was at its maximum.
C17_FrameAtMaxSpeed ==
    /\ lastEvent.op = "frame"
    /\ orbitSpeed = 50
    /\ spinAngle["sun"] > 0

\* C18: between two successive frames with the multiplier s unchanged, every
\* orbit angle grows by the body's orbit speed times s times the simulation
\* time elapsed.
C18_OrbitLinearInTime ==
    [][(lastEvent.op = "frame" /\ lastEvent'.op = "frame") =>
        \A k \in OrbitKeys(version) :
            orbitAngle'[k] - orbitAngle[k] =
                OrbitRate(k) * orbitSpeed *
                    (IF version = "part_000" THEN timeRef' - timeRef ELSE 1)]_vars

\* C19: a resize to a window of zero width or zero height leaves the camera
\* aspect and the renderer size as they were; a resize to a window of
\* non-zero area sets both to the new size.
C19_ZeroAreaResizeIgnored ==
    [][(lastEvent'.op = "resize" /\ mounted) =>
        IF windowSize'[1] = 0 \/ windowSize'[2] = 0
        THEN UNCHANGED <<cameraAspect, rendererSize>>
        ELSE cameraAspect' = windowSize' /\ rendererSize' = windowSize']_vars

\* the four stages the frame order speaks of
IsOrderedStage(x) ==
    x \in {"rotatePlanets", "controls.update", "updateLabels", "render"}

\* C20: every frame runs rotatePlanets, then controls.update, then
\* updateLabels, then one render, none skipped or repeated; the labels are
\* placed from the angles this frame wrote and face the camera position
\* this frame's controls.update left.
C20_FrameStageOrder ==
    lastEvent.op = "frame" =>
        /\ SelectSeq(lastEvent.stages, IsOrderedStage) =
                << "rotatePlanets", "controls.update", "updateLabels", "render" >>
        /\ \A id \in DOMAIN labelsRef :
                /\ labelsRef[id].xz = WorldXZ(version, id, orbitAngle, meshAngle)
                /\ labelsRef[id].facing = cameraPosition

\* C20: a frame ran with the camera moved by controls.update and every label
\* turned to the moved camera.
C20_LabelsFaceMovedCamera ==
    /\ lastEvent.op = "frame"
    /\ cameraPosition = "moved"
    /\ DOMAIN labelsRef = LabelIds
    /\ \A id \in LabelIds : labelsRef[id].facing = "moved"

\* the clock and the transforms after the scene initialisation: a clock at
\* zero and meshes placed at angle 0, put through the kinematics update of
\* the animate(0) call
FirstUpdate(v) ==
    rotatePlanets(v, ClockStep(0, 0), [k \in OrbitKeys(v) |-> 0],
                  [k \in SpinKeys(v) |-> 0], FixedPlacement(v),
                  InitialOrbitSpeed)

ClockAfterInit(v) == FirstUpdate(v).timeRef

\* C21: the simulation clock advances by exactly the wall-clock delta of each
\* frame, 0 on the first, so that the time the kinematics update uses equals
\* the wall-clock time of the last callback, counted from the scene's start.
C21_ClockIsWallClock ==
    (version = "part_000" /\ mounted) => timeRef = lastTime

\* C22: the simulation clock never decreases across frames, no key, click,
\* drag, mode switch, label toggle or resize changes it, and only a scene
\* initialisation takes it back to its starting value.
C22_ClockMonotonic ==
    [][CASE lastEvent'.op = "mount" -> timeRef' = ClockAfterInit(version)
         [] lastEvent'.op = "frame" -> timeRef' >= timeRef
         [] OTHER                   -> timeRef' = timeRef]_vars

\* C22: frames advanced the clock, then the mode was switched, the labels
\* were toggled and the window was resized, and the clock is as advanced.
C22_ClockKeptAcrossEvents ==
    /\ version = "part_000"
    /\ lastEvent.op = "resize"
    /\ cameraMode = "free"
    /\ ~showLabels
    /\ timeRef > ClockAfterInit(version)

\* C26: while the scene is mounted exactly one animation-frame request is
\* pending and animationFrameRef holds its id; at no time is more than one
\* request pending.
C26_OnePendingRequest ==
    /\ Cardinality(rafPending) <= 1
    /\ mounted => (Cardinality(rafPending) = 1 /\ animationFrameRef \in rafPending)

\* C26: two callbacks have run, each having requested its successor first,
\* and the ref names the request now pending.
C26_SuccessorPending ==
    /\ mounted
    /\ lastEvent.op = "frame"
    /\ animationFrameRef = 3
    /\ rafPending = {3}

\* C27: in every reachable state the camera mode is 'orbit' or 'free' and
\* the target body is null, also in the values the closures captured.
C27_NeverLocked ==
    /\ cameraMode \in {"orbit", "free"}
    /\ targetPlanet = NULL
    /\ closure.cameraMode # "planet"
    /\ closure.targetPlanet = NULL

\* C27: the mode was switched to free and a planet was then picked; no
\* target body is set.
C27_PickedInFreeMode ==
    /\ lastEvent.op = "click"
    /\ selectedPlanet = "earth"
    /\ cameraMode = "free"
    /\ targetPlanet = NULL

\* C23: after a frame each moon's world position is its planet's world
\* position plus the moon's own orbit offset, at the moon's orbit angle,
\* whatever the planet's spin angle is.
C23_MoonOffsetUnrotated ==
    (version = "part_000" /\ lastEvent.op = "frame") =>
        \A k \in MoonKeys :
            LET w == MoonWorldPosition(k, meshAngle, spinAngle, timeRef)
            IN  /\ w.parent.xz =
                        WorldXZ(version, ParentOf(k), orbitAngle, meshAngle)
                /\ w.parent.y = WorldY(version, ParentOf(k), timeRef)
                /\ w.offset = meshAngle[k]

\* C24: the transforms the kinematics update leaves are a function of the
\* simulation time and the multiplier: a state with the time and the
\* multiplier of the state after initialisation has its orbit angles, spin
\* angles and mesh positions, however many frames ran and wherever the
\* meshes were first placed.
C24_TransformsFunctionOfTime ==
    (/\ mounted
     /\ timeRef = FirstUpdate(version).timeRef
     /\ orbitSpeed = InitialOrbitSpeed) =>
        /\ orbitAngle = FirstUpdate(version).orbitAngle
        /\ spinAngle = FirstUpdate(version).spinAngle
        /\ meshAngle = FirstUpdate(version).meshAngle

\* C30: the asteroid field keeps its 1000 particles and its velocities for
\* the scene's lifetime; every updateAsteroids call moves each coordinate by
\* its velocity and turns one that then exceeds 500 into -0.9 times its
\* value; after every call each coordinate is within [-500, 500].
C30_FieldBounded ==
    /\ [](version = "part_000" =>
            /\ asteroids.count = AsteroidCount
            /\ DOMAIN asteroids.positions = 1..MaxCells
            /\ \A c \in DOMAIN asteroids.positions :
                    Abs(asteroids.positions[c]) <= MaxDistance)
    /\ [][(version = "part_000" /\ lastEvent'.op # "mount") =>
            /\ asteroids'.velocities = asteroids.velocities
            /\ IF lastEvent'.op = "frame"
               THEN \A c \in DOMAIN asteroids.positions :
                        LET q == asteroids.positions[c] + asteroids.velocities[c]
                        IN  asteroids'.positions[c] =
                                IF q > MaxDistance \/ q < -MaxDistance
                                THEN (q * (-9)) \div 10 ELSE q
               ELSE asteroids'.positions = asteroids.positions]_vars

\* C30: a frame's velocity step took a coordinate beyond 500 and the
\* coordinate was reflected.
C30_CoordinateReflected ==
    /\ lastEvent.op = "frame"
    /\ lastEvent.reflected > 0
    /\ \E c \in DOMAIN asteroids.positions :
            /\ Abs(asteroids.positions[c]) > (MaxDistance * 9) \div 10
            /\ asteroids.positions[c] * asteroids.velocities[c] < 0

\* C28: while the Profile page is open no favourite whose remote delete has
\* succeeded is displayed, whatever the interleaving of the removals; when
\* no call is in flight the displayed list is the fetched list minus the
\* deleted ids.
C28_DeletedStayRemoved ==
    profile.open =>
        /\ profile.favorites \cap profile.deleted = {}
        /\ (~profile.fetching /\ profile.removals = {}) =>
                profile.favorites = profile.fetched \ profile.deleted

\* C29: while the PlanetDetail page of a signed-in user is open, once the
\* check has settled, no toggle is in flight and no remote call has failed,
\* isFavorite tells whether the document favorites/<uid>_<planetId> exists.
C29_FavoriteMatchesStore ==
    (/\ detail.open
     /\ detail.user
     /\ detail.check = "done"
     /\ detail.toggle = "none"
     /\ ~detail.failed) =>
        detail.isFavorite = (detail.id \in store)

====
